---- MODULE Spec2Model ----
(***************************************************************************)
(* pdf-reader-mcp: path and file validation, page ranges                   *)
(* (utils/validation.ts), error classification and the timeout race        *)
(* (utils/error-handling.ts), and the tool requests built on them          *)
(* (tools, services).                                                      *)
(*                                                                         *)
(* A string is a sequence of character codes (UTF-16 code units; every raw *)
(* candidate of the model is ASCII).  An async function runs               *)
(* synchronously up to an await, is suspended there and goes on when the   *)
(* awaited call settles: validateFilePath up to the await of fs.stat,      *)
(* validatePDFFile up to the awaits of validateFilePath and fs.readFile.   *)
(***************************************************************************)
EXTENDS Integers, Sequences, FiniteSets, TLC

VARIABLES
    platform,        \* process.platform: "posix" (linux, darwin, ...) or "win32"
    envMaxFileSize,  \* process.env.PDF_MAX_FILE_SIZE: <<>> unset, <<n>> set to the digits of n
    fsEntry,         \* what the filesystem holds at path.resolve(filePath)
    filePath,        \* the filePath argument of the call
    pc,              \* position of the call: "call", "stat" (awaiting fs.stat),
                     \* "readFile" (awaiting fs.readFile), "done"
    violations,      \* the boolean locals of validateFilePath that are true
    outcome,         \* settlement of the call: of the returned promise, or the
                     \* value returned or thrown
    fsCalls,         \* filesystem calls issued so far, in order
    pageRange,       \* the pageRange argument of parsePageRange
    totalPages,      \* the totalPages argument of parsePageRange
    error,           \* the error argument of handleError
    mcpError,        \* the MCPError handleError has returned
    tool,            \* name of the tool a request calls
    servicePc,       \* position of the request in its handler and service
    parser,          \* the latest call of pdf(buffer): "idle", "running", "returned", "threw"
    timer,           \* the timer of withTimeout: "unset", "armed", "fired"
    pagesLeft,       \* page numbers the loop of extractFromPages has yet to take
    response,        \* what the handler has returned or thrown
    validatedBuffer, \* the buffer fs.readFile gave validatePDFFile
    buffer,          \* the buffer fs.readFile gave the service
    arguments,       \* the arguments of the tool call
    inFlight,        \* the calls of the call-tool request handler that have not settled
    validations      \* the calls of validateFilePath that run interleaved

pathVars == <<platform, envMaxFileSize, fsEntry, filePath, pc, violations, outcome, fsCalls>>
pageVars == <<pageRange, totalPages>>
errorVars == <<error, mcpError>>
requestVars == <<tool, servicePc, parser, timer, pagesLeft, response>>

bufferVars == <<validatedBuffer, buffer>>
serverVars == <<arguments, inFlight, validations>>

vars == <<pathVars, pageVars, errorVars, requestVars, bufferVars, serverVars>>

\* Values of process.platform, told apart as the path module does.
Platforms == {"posix", "win32"}

(***************************************************************************)
(* Characters and strings                                                  *)
(***************************************************************************)

\* The printable ASCII characters, code 32 (space) to 126 (tilde), in order;
\* the three quote characters are spelled out.
Printable ==
    << " ", "!", "QUOTE", "#", "$", "%", "&", "APOSTROPHE", "(", ")", "*", "+", ",", "-", ".", "/",
       "0", "1", "2", "3", "4", "5", "6", "7", "8", "9", ":", ";", "<", "=", ">", "?",
       "@", "A", "B", "C", "D", "E", "F", "G", "H", "I", "J", "K", "L", "M", "N", "O",
       "P", "Q", "R", "S", "T", "U", "V", "W", "X", "Y", "Z", "[", "\\", "]", "^", "_",
       "BACKTICK", "a", "b", "c", "d", "e", "f", "g", "h", "i", "j", "k", "l", "m", "n", "o",
       "p", "q", "r", "s", "t", "u", "v", "w", "x", "y", "z", "{", "|", "}", "~" >>

\* Code of a printable ASCII character.
Ord(c) == 31 + CHOOSE i \in 1..Len(Printable) : Printable[i] = c

\* The string whose characters are given one per element.
Str(cs) == [i \in 1..Len(cs) |-> Ord(cs[i])]

Dot       == Ord(".")
Slash     == Ord("/")
Backslash == Ord("\\")
Colon     == Ord(":")
Percent   == Ord("%")
Tilde     == Ord("~")
Digit0    == Ord("0")
Digit9    == Ord("9")
UpperA    == Ord("A")
UpperF    == Ord("F")
UpperZ    == Ord("Z")
LowerA    == Ord("a")
LowerF    == Ord("f")
LowerZ    == Ord("z")

Max(S) == CHOOSE x \in S : \A y \in S : y <= x

\* String.prototype.includes
Includes(s, sub) ==
    \E i \in 0..(Len(s) - Len(sub)) : SubSeq(s, i + 1, i + Len(sub)) = sub

\* String.prototype.toLowerCase / toUpperCase on one code unit (ASCII range)
LowerChar(c) == IF c \in UpperA..UpperZ THEN c + 32 ELSE c
UpperChar(c) == IF c \in LowerA..LowerZ THEN c - 32 ELSE c
toLowerCase(s) == [i \in 1..Len(s) |-> LowerChar(s[i])]
toUpperCase(s) == [i \in 1..Len(s) |-> UpperChar(s[i])]

(***************************************************************************)
(* decodeURIComponent (ECMAScript Decode with an empty reserved set)       *)
(***************************************************************************)

HexVal(c) ==
    IF c \in Digit0..Digit9 THEN c - Digit0
    ELSE IF c \in LowerA..LowerF THEN c - LowerA + 10
    ELSE IF c \in UpperA..UpperF THEN c - UpperA + 10
    ELSE -1

\* s has an escape %XX at position k
IsEscape(s, k) ==
    /\ k + 2 <= Len(s)
    /\ s[k] = Percent
    /\ HexVal(s[k + 1]) >= 0
    /\ HexVal(s[k + 2]) >= 0

EscapeByte(s, k) == 16 * HexVal(s[k + 1]) + HexVal(s[k + 2])

\* Number of octets announced by the leading octet b; 0 when b cannot lead.
Utf8Length(b) ==
    IF b < 128 THEN 1
    ELSE IF b \in 192..223 THEN 2
    ELSE IF b \in 224..239 THEN 3
    ELSE IF b \in 240..247 THEN 4
    ELSE 0

\* The n-1 escapes after position k are continuation octets (10xxxxxx).
HasContinuations(s, k, n) ==
    \A j \in 1..(n - 1) :
        /\ IsEscape(s, k + 3 * j)
        /\ EscapeByte(s, k + 3 * j) \in 128..191

Utf8Value(s, k, n) ==
    LET b    == EscapeByte(s, k)
        c(j) == EscapeByte(s, k + 3 * j) - 128
    IN  IF n = 2 THEN (b - 192) * 64 + c(1)
        ELSE IF n = 3 THEN (b - 224) * 4096 + c(1) * 64 + c(2)
        ELSE (b - 240) * 262144 + c(1) * 4096 + c(2) * 64 + c(3)

\* Octets are a valid UTF-8 encoding: not overlong, no surrogate, in range.
Utf8Valid(v, n) ==
    IF n = 2 THEN v >= 128
    ELSE IF n = 3 THEN v >= 2048 /\ v \notin 55296..57343
    ELSE v >= 65536 /\ v <= 1114111

URIError == [ok |-> FALSE, value |-> <<>>]

\* Position of the first "%" at or after k; Len(s) + 1 when there is none.
NextPercent(s, k) ==
    LET S == {i \in k..Len(s) : s[i] = Percent}
    IN  IF S = {} THEN Len(s) + 1 ELSE CHOOSE i \in S : \A j \in S : i <= j

\* Characters other than "%" are copied; every escape sequence is decoded
\* to one code point or raises URIError.
RECURSIVE Decode(_, _, _)
Decode(s, k, acc) ==
    IF k > Len(s) THEN [ok |-> TRUE, value |-> acc]
    ELSE IF s[k] # Percent
        THEN Decode(s, NextPercent(s, k), acc \o SubSeq(s, k, NextPercent(s, k) - 1))
    ELSE IF ~IsEscape(s, k) THEN URIError
    ELSE LET n == Utf8Length(EscapeByte(s, k))
         IN  IF n = 0 THEN URIError
             ELSE IF n = 1 THEN Decode(s, k + 3, Append(acc, EscapeByte(s, k)))
             ELSE IF ~HasContinuations(s, k, n) THEN URIError
             ELSE IF ~Utf8Valid(Utf8Value(s, k, n), n) THEN URIError
             ELSE Decode(s, k + 3 * n, Append(acc, Utf8Value(s, k, n)))

\* Result [ok, value]: ok = FALSE stands for the URIError that is thrown.
decodeURIComponent(s) == Decode(s, 1, <<>>)

(***************************************************************************)
(* The path module of Node, posix and win32 flavours                       *)
(***************************************************************************)

isPathSeparator(c, plat) ==
    c = Slash \/ (plat = "win32" /\ c = Backslash)

isWindowsDeviceRoot(c) ==
    c \in UpperA..UpperZ \/ c \in LowerA..LowerZ

\* Characters skipped as a drive prefix "X:" by win32 basename and extname.
DriveLen(p, plat) ==
    IF plat = "win32" /\ Len(p) >= 2 /\ isWindowsDeviceRoot(p[1]) /\ p[2] = Colon
    THEN 2 ELSE 0

\* End (inclusive, 1-based) of the last path component; 0 when there is none.
CompEnd(p, plat) ==
    LET S == {i \in (DriveLen(p, plat) + 1)..Len(p) : ~isPathSeparator(p[i], plat)}
    IN  IF S = {} THEN 0 ELSE Max(S)

\* Start (1-based) of the last path component.
CompStart(p, plat) ==
    LET S == {i \in (DriveLen(p, plat) + 1)..CompEnd(p, plat) : isPathSeparator(p[i], plat)}
    IN  IF S = {} THEN DriveLen(p, plat) + 1 ELSE Max(S) + 1

LastComponent(p, plat) == SubSeq(p, CompStart(p, plat), CompEnd(p, plat))

\* path.extname
extname(p, plat) ==
    LET comp == LastComponent(p, plat)
        dots == {i \in 1..Len(comp) : comp[i] = Dot}
    IN  IF dots = {} \/ Max(dots) = 1 \/ comp = <<Dot, Dot>>
        THEN <<>>
        ELSE SubSeq(comp, Max(dots), Len(comp))

EndsWith(s, suffix) ==
    /\ Len(suffix) <= Len(s)
    /\ SubSeq(s, Len(s) - Len(suffix) + 1, Len(s)) = suffix

\* path.basename(p, suffix)
basename(p, suffix, plat) ==
    LET comp == LastComponent(p, plat)
    IN  IF suffix # <<>> /\ Len(suffix) <= Len(p)
        THEN IF suffix = p THEN <<>>
             ELSE IF EndsWith(comp, suffix) /\ Len(comp) > Len(suffix)
                  THEN SubSeq(comp, 1, Len(comp) - Len(suffix))
             ELSE IF Len(comp) < Len(suffix) /\ EndsWith(suffix, comp)
                  \* the suffix scan ran off the component: slice to path.length
                  THEN SubSeq(p, CompStart(p, plat), Len(p))
             ELSE comp
        ELSE comp

\* path.isAbsolute
isAbsolute(p, plat) ==
    IF plat = "win32"
    THEN /\ Len(p) > 0
         /\ \/ isPathSeparator(p[1], plat)
            \/ /\ Len(p) > 2
               /\ isWindowsDeviceRoot(p[1])
               /\ p[2] = Colon
               /\ isPathSeparator(p[3], plat)
    ELSE Len(p) > 0 /\ p[1] = Slash


(***************************************************************************)
(* Configuration (config/server-config.ts)                                 *)
(***************************************************************************)

defaultConfig ==
    [maxFileSize               |-> 100 * 1024 * 1024,
     processingTimeout         |-> 60000,
     concurrentProcessingLimit |-> 10]

\* getConfig: the environment variable, when set, replaces the default
\* (PDF_PROCESSING_TIMEOUT is left unset; no variable is read for
\* concurrentProcessingLimit).
getConfig(env) ==
    [maxFileSize               |-> IF env # <<>> THEN env[1] ELSE defaultConfig.maxFileSize,
     processingTimeout         |-> defaultConfig.processingTimeout,
     concurrentProcessingLimit |-> defaultConfig.concurrentProcessingLimit]

(***************************************************************************)
(* The filesystem as seen by fs.stat                                       *)
(***************************************************************************)

\* fs.stat follows symbolic links: it reports the link's target, and fails
\* when there is nothing at the end of the chain (ENOENT) or when a
\* directory on the way denies the search (EACCES).
Stat(entry) ==
    IF entry.kind \in {"file", "linkToFile"}
        THEN [ok |-> TRUE, isFile |-> TRUE, size |-> entry.size]
    ELSE IF entry.kind \in {"dir", "linkToDir"}
        THEN [ok |-> TRUE, isFile |-> FALSE, size |-> entry.size]
    ELSE [ok |-> FALSE, isFile |-> FALSE, size |-> 0]

(***************************************************************************)
(* validateFilePath (utils/validation.ts)                                  *)
(***************************************************************************)

ValidationError(message, args, code) ==
    [status |-> "rejected", name |-> "ValidationError",
     code |-> code, message |-> message, args |-> args]

Pending  == [status |-> "pending"]
Resolved == [status |-> "resolved"]

\* No call of parsePageRange, no call of handleError.
NoPageRange == pageRange = <<>> /\ totalPages = 0
NoError     == error = Pending /\ mcpError = Pending

\* A buffer that no fs.readFile has filled.
NoBuffer == [ok |-> FALSE, length |-> 0, head |-> <<>>]

\* No arguments of a tool call, no call of the call-tool request handler,
\* no interleaved calls of validateFilePath.
NoServer == arguments = <<>> /\ inFlight = {} /\ validations = <<>>

\* No tool request.
NoRequest ==
    /\ tool = "none"
    /\ servicePc = "idle"
    /\ parser = "idle"
    /\ timer = "unset"
    /\ pagesLeft = <<>>
    /\ response = Pending
    /\ validatedBuffer = NoBuffer
    /\ buffer = NoBuffer
    /\ NoServer

hasDirectoryTraversal(p) ==
    Includes(p, <<Dot, Dot>>) \/ Includes(p, <<Tilde>>)

\* /[\x00-\x1f\x7f-\x9f]/.test(filePath)
hasControlChars(p) ==
    \E i \in 1..Len(p) : p[i] \in 0..31 \/ p[i] \in 127..159

hasNTFSStreams(p, plat) ==
    Includes(p, <<Colon>>) /\ plat = "win32" /\ ~isAbsolute(p, plat)

windowsReserved ==
    { Str(<<"C", "O", "N">>), Str(<<"P", "R", "N">>),
      Str(<<"A", "U", "X">>), Str(<<"N", "U", "L">>),
      Str(<<"C", "O", "M", "1">>), Str(<<"C", "O", "M", "2">>),
      Str(<<"L", "P", "T", "1">>), Str(<<"L", "P", "T", "2">>) }

hasReservedName(p, plat) ==
    toUpperCase(basename(p, extname(p, plat), plat)) \in windowsReserved

\* Variant: a candidate that fails to decode is not treated as suspicious.
hasEncodedTraversalLenient(p) ==
    LET decoded == decodeURIComponent(p)
    IN  IF decoded.ok
        THEN Includes(decoded.value, <<Dot, Dot>>) \/ Includes(decoded.value, <<Tilde>>)
        ELSE FALSE

\* try { decodeURIComponent ... } catch { hasEncodedTraversal = true }
hasEncodedTraversal(p) ==
    LET decoded == decodeURIComponent(p)
    IN  IF decoded.ok
        THEN Includes(decoded.value, <<Dot, Dot>>) \/ Includes(decoded.value, <<Tilde>>)
        ELSE TRUE

sensitiveFragments ==
    { Str(<<"/", "e", "t", "c", "/">>),
      Str(<<"/", "r", "o", "o", "t", "/">>),
      Str(<<"/", "p", "r", "o", "c", "/">>),
      Str(<<"/", "d", "e", "v", "/">>),
      Str(<<"c", ":", "\\", "w", "i", "n", "d", "o", "w", "s", "\\">>),
      Str(<<"/", "v", "a", "r", "/", "l", "o", "g", "/">>),
      Str(<<"/", "s", "y", "s", "/">>) }

isSensitiveAbsolutePath(p, plat) ==
    /\ isAbsolute(p, plat)
    /\ \E frag \in sensitiveFragments : Includes(toLowerCase(p), frag)

\* The boolean locals of validateFilePath that are true for this candidate.
Violations(p, plat) ==
    {f \in {"hasDirectoryTraversal", "hasControlChars", "hasNTFSStreams",
            "hasReservedName", "hasEncodedTraversal", "isSensitiveAbsolutePath"} :
        \/ f = "hasDirectoryTraversal"   /\ hasDirectoryTraversal(p)
        \/ f = "hasControlChars"         /\ hasControlChars(p)
        \/ f = "hasNTFSStreams"          /\ hasNTFSStreams(p, plat)
        \/ f = "hasReservedName"         /\ hasReservedName(p, plat)
        \/ f = "hasEncodedTraversal"     /\ hasEncodedTraversal(p)
        \/ f = "isSensitiveAbsolutePath" /\ isSensitiveAbsolutePath(p, plat)}

\* if (!filePath || typeof filePath !== 'string') throw ...; the argument is
\* a string, and the only falsy string is the empty one.
PathArgumentError(p) ==
    IF p = <<>>
    THEN ValidationError("File path must be a non-empty string", <<>>, "INVALID_PATH")
    ELSE Pending

\* Variant: the traversal flags are computed but left out of the condition.
SecurityRejectionWithoutTraversal(flags) ==
    IF flags \ {"hasDirectoryTraversal", "hasEncodedTraversal"} # {}
    THEN ValidationError("Invalid file path", <<>>, "SECURITY_VIOLATION")
    ELSE Pending

\* Variant: traversal keeps the message of its own that it had before the
\* checks were merged into one throw.
SecurityRejectionPerCheck(flags) ==
    IF "hasDirectoryTraversal" \in flags
        THEN ValidationError("Directory traversal detected in file path", <<>>,
                             "SECURITY_VIOLATION")
    ELSE IF flags # {}
        THEN ValidationError("Invalid file path", <<>>, "SECURITY_VIOLATION")
    ELSE Pending

\* if (hasDirectoryTraversal || ... || isSensitiveAbsolutePath) throw ...
SecurityRejection(flags) ==
    IF flags # {}
    THEN ValidationError("Invalid file path", <<>>, "SECURITY_VIOLATION")
    ELSE Pending

\* Variant: a file of the maximum size is too large.
StatOutcomeAtLeast(st, config) ==
    IF ~st.ok
        THEN ValidationError("File not found or inaccessible", <<>>, "FILE_NOT_FOUND")
    ELSE IF ~st.isFile
        THEN ValidationError("Path does not point to a file", <<>>, "NOT_A_FILE")
    ELSE IF st.size >= config.maxFileSize
        THEN ValidationError("File size {0} exceeds maximum allowed size {1}",
                             <<st.size, config.maxFileSize>>, "FILE_TOO_LARGE")
    ELSE Resolved

\* The try block around fs.stat and its catch clause.
StatOutcome(st, config) ==
    IF ~st.ok
        THEN ValidationError("File not found or inaccessible", <<>>, "FILE_NOT_FOUND")
    ELSE IF ~st.isFile
        THEN ValidationError("Path does not point to a file", <<>>, "NOT_A_FILE")
    ELSE IF st.size > config.maxFileSize
        THEN ValidationError("File size {0} exceeds maximum allowed size {1}",
                             <<st.size, config.maxFileSize>>, "FILE_TOO_LARGE")
    ELSE Resolved

\* The synchronous part of validateFilePath: from the call to the await of
\* fs.stat(path.resolve(filePath)), or to the throw that rejects the promise.
validateFilePath ==
    /\ pc = "call"
    /\ LET argError == PathArgumentError(filePath)
           flags    == IF argError = Pending THEN Violations(filePath, platform) ELSE {}
           secError == SecurityRejection(flags)
       IN  /\ violations' = flags
           /\ IF argError # Pending
                  THEN pc' = "done" /\ outcome' = argError /\ fsCalls' = fsCalls
              ELSE IF secError # Pending
                  THEN pc' = "done" /\ outcome' = secError /\ fsCalls' = fsCalls
              ELSE pc' = "stat" /\ outcome' = outcome /\ fsCalls' = Append(fsCalls, "stat")
    /\ UNCHANGED <<platform, envMaxFileSize, fsEntry, filePath, pageVars, errorVars, requestVars,
                   bufferVars, serverVars>>

\* fs.stat settles and validateFilePath runs to its end.
statSettles ==
    /\ pc = "stat"
    /\ pc' = "done"
    /\ outcome' = StatOutcome(Stat(fsEntry), getConfig(envMaxFileSize))
    /\ UNCHANGED <<platform, envMaxFileSize, fsEntry, filePath, violations, fsCalls,
                   pageVars, errorVars, requestVars, bufferVars, serverVars>>


(***************************************************************************)
(* Inputs                                                                  *)
(***************************************************************************)

MaxTokens == 2

\* Fragments the candidates are put together from.
Tokens ==
    { Str(<<"a">>), Str(<<"/">>), Str(<<".">>), Str(<<".", ".">>), Str(<<".", "/">>),
      Str(<<"~">>), Str(<<":">>),
      Str(<<"%">>), Str(<<"%", "2", "5">>), Str(<<"7", "e">>),
      Str(<<" ">>), <<127>>,
      Str(<<"c", "o", "n">>), Str(<<"C", "O", "M", "3">>),
      Str(<<"/", "e", "t", "c", "/">>),
      Str(<<"C", ":", "\\", "W", "i", "n", "d", "o", "w", "s", "\\">>) }

RECURSIVE Concatenations(_)
Concatenations(n) ==
    IF n = 0 THEN {<<>>}
    ELSE LET shorter == Concatenations(n - 1)
         IN  shorter \cup {s \o t : s \in shorter, t \in Tokens}

\* String.prototype.repeat
Repeat(s, n) == [i \in 1..(n * Len(s)) |-> s[((i - 1) % Len(s)) + 1]]

\* a/a/.../a.pdf: 22 segments, 47 characters
DeepCandidate ==
    Repeat(Str(<<"a", "/">>), 21) \o Str(<<"a", ".", "p", "d", "f">>)

\* four directories of 64 characters and a file name: 5 segments, 265 characters
LongCandidate ==
    Repeat(Repeat(Str(<<"a">>), 64) \o Str(<<"/">>), 4) \o Str(<<"a", ".", "p", "d", "f">>)

Candidates == Concatenations(MaxTokens) \cup {DeepCandidate, LongCandidate}

\* PDF_MAX_FILE_SIZE is unset or holds the digits of 1024.
EnvSettings == {<<>>, <<1024>>}

FsEntries ==
    { [kind |-> "absent",     size |-> 0],
      [kind |-> "denied",     size |-> 1024],
      [kind |-> "dir",        size |-> 4096],
      [kind |-> "file",       size |-> 1024],
      [kind |-> "file",       size |-> defaultConfig.maxFileSize + 1],
      [kind |-> "linkToFile", size |-> 1024] }

\* path.resolve(p) names a directory that exists whatever else does: the
\* working directory, one of its ancestors or a root.
ResolvesToDirectory(p, plat) ==
    LastComponent(p, plat) \in {<<>>, <<Dot>>, <<Dot, Dot>>}

\* The names Windows reserves for devices: CON, PRN, AUX, NUL, COM1 to COM9
\* and LPT1 to LPT9
DeviceNames ==
    { Str(<<"C", "O", "N">>), Str(<<"P", "R", "N">>),
      Str(<<"A", "U", "X">>), Str(<<"N", "U", "L">>) }
    \cup {Str(<<"C", "O", "M">>) \o <<Digit0 + d>> : d \in 1..9}
    \cup {Str(<<"L", "P", "T">>) \o <<Digit0 + d>> : d \in 1..9}

\* Characters Windows does not accept in a file name.
ForbiddenOnWindows ==
    (0..31) \cup {Ord("<"), Ord(">"), Ord(":"), Ord("QUOTE"), Ord("|"), Ord("?"), Ord("*")}

\* Part of a file name before its first dot.
BeforeFirstDot(name) ==
    LET dots == {i \in 1..Len(name) : name[i] = Dot}
    IN  IF dots = {} THEN name
        ELSE SubSeq(name, 1, (CHOOSE i \in dots : \A j \in dots : i <= j) - 1)

\* The platform can hold a directory entry under the name p: POSIX takes any
\* character of the candidates; Windows refuses some characters, names that
\* end in a space or a dot, and the device names.
Nameable(p, plat) ==
    plat = "win32" =>
        LET rest == SubSeq(p, DriveLen(p, plat) + 1, Len(p))
            name == LastComponent(p, plat)
        IN  /\ \A i \in 1..Len(rest) : rest[i] \notin ForbiddenOnWindows
            /\ \/ name \in {<<>>, <<Dot>>, <<Dot, Dot>>}
               \/ /\ name[Len(name)] \notin {Dot, Ord(" ")}
                  /\ toUpperCase(BeforeFirstDot(name)) \notin DeviceNames

Init ==
    /\ platform \in Platforms
    /\ envMaxFileSize \in EnvSettings
    /\ filePath \in Candidates
    /\ fsEntry \in FsEntries
    /\ IF ~Nameable(filePath, platform) THEN fsEntry.kind = "absent"
       ELSE ResolvesToDirectory(filePath, platform) => fsEntry.kind = "dir"
    /\ pc = "call"
    /\ violations = {}
    /\ outcome = Pending
    /\ fsCalls = <<>>
    /\ NoPageRange
    /\ NoError
    /\ NoRequest

Next == validateFilePath \/ statSettles

Spec == Init /\ [][Next]_vars

TypeOK ==
    /\ platform \in Platforms
    /\ pc \in {"call", "stat", "done"}
    /\ outcome.status \in {"pending", "resolved", "rejected"}
    /\ pc = "done" <=> outcome.status # "pending"


(***************************************************************************)
(* validatePDFFile (utils/validation.ts)                                   *)
(***************************************************************************)

\* fs.readFile gives the whole content of a regular file the process may
\* read, reached through links if need be, and fails otherwise (ENOENT,
\* EISDIR, EACCES).  Of the content the model keeps the length and the
\* first bytes.
ReadFile(entry) ==
    IF entry.kind \in {"file", "linkToFile"} /\ entry.readable
        THEN [ok |-> TRUE, length |-> entry.size, head |-> entry.head]
    ELSE [ok |-> FALSE, length |-> 0, head |-> <<>>]

\* Buffer.prototype.toString, UTF-8: an ASCII byte is the character of the
\* same code; a byte that no UTF-8 sequence holds becomes U+FFFD.  (The
\* heads of the model hold ASCII bytes and the byte 0xFF.)
BufferToString(bytes) ==
    [i \in 1..Len(bytes) |-> IF bytes[i] < 128 THEN bytes[i] ELSE 65533]

\* buffer.subarray(0, 4)
Subarray4(bytes) == SubSeq(bytes, 1, IF Len(bytes) < 4 THEN Len(bytes) ELSE 4)

\* The try block around fs.readFile and its catch clause: a ValidationError
\* is thrown on, anything else becomes READ_ERROR.
ReadOutcome(rd) ==
    IF ~rd.ok
        THEN ValidationError("Error reading PDF file", <<>>, "READ_ERROR")
    ELSE IF rd.length < 4
        THEN ValidationError("File is too small to be a valid PDF", <<>>, "INVALID_PDF")
    ELSE IF BufferToString(Subarray4(rd.head)) # Str(<<"%", "P", "D", "F">>)
        THEN ValidationError("File does not appear to be a PDF (invalid magic number)",
                             <<>>, "INVALID_PDF")
    ELSE Resolved

\* validatePDFFile calls validateFilePath, which runs to its await of
\* fs.stat or to its throw, and awaits it; a rejection of validateFilePath
\* is the rejection of validatePDFFile.
validatePDFFile ==
    /\ pc = "call"
    /\ validateFilePath

\* fs.stat settles, validateFilePath settles with it, and validatePDFFile
\* goes on to fs.readFile(filePath) or is rejected.
readFile ==
    /\ pc = "stat"
    /\ LET validated == StatOutcome(Stat(fsEntry), getConfig(envMaxFileSize))
       IN  IF validated = Resolved
               THEN /\ pc' = "readFile"
                    /\ outcome' = outcome
                    /\ fsCalls' = Append(fsCalls, "readFile")
           ELSE /\ pc' = "done"
                /\ outcome' = validated
                /\ fsCalls' = fsCalls
    /\ UNCHANGED <<platform, envMaxFileSize, fsEntry, filePath, violations,
                   pageVars, errorVars, requestVars, bufferVars, serverVars>>

\* fs.readFile settles and validatePDFFile runs to its end.
readFileSettles ==
    /\ pc = "readFile"
    /\ pc' = "done"
    /\ validatedBuffer' = ReadFile(fsEntry)
    /\ outcome' = ReadOutcome(validatedBuffer')
    /\ UNCHANGED <<platform, envMaxFileSize, fsEntry, filePath, violations, fsCalls,
                   pageVars, errorVars, requestVars, buffer, serverVars>>

MaxExtensions == 2

Extensions ==
    { Str(<<".", "p", "d", "f">>), Str(<<".", "t", "x", "t">>), Str(<<".", "e", "x", "e">>) }

\* The stem "a" followed by at most n extensions.
RECURSIVE FileNames(_)
FileNames(n) ==
    IF n = 0 THEN {Str(<<"a">>)}
    ELSE LET shorter == FileNames(n - 1)
         IN  shorter \cup {s \o e : s \in shorter, e \in Extensions}

\* File names, some of them below a directory, and candidates that
\* validateFilePath rejects.
PDFCandidates ==
    FileNames(MaxExtensions)
    \cup {Str(<<"d", "/">>) \o name : name \in FileNames(1)}
    \cup {<<>>, Str(<<".", ".", "/", "a", ".", "p", "d", "f">>)}

PDFHeads ==
    { Str(<<"%", "P", "D", "F">>), Str(<<"%", "p", "d", "f">>),
      Str(<<"a", "b", "c", "d">>), <<255, 80, 68, 70>> }

\* Regular files of at least four bytes that can be read, the shorter
\* ones, a file that cannot be read, and the entries of FsEntries.
PDFFsEntries ==
    {[kind |-> "file", size |-> n, head |-> h, readable |-> TRUE] :
        n \in {4, 1024}, h \in PDFHeads}
    \cup {[kind |-> "file", size |-> n, head |-> SubSeq(Str(<<"%", "P", "D", "F">>), 1, n),
           readable |-> TRUE] : n \in 0..3}
    \cup {[kind |-> "file", size |-> 1024, head |-> h, readable |-> FALSE] :
           h \in {Str(<<"%", "P", "D", "F">>), Str(<<"a", "b", "c", "d">>)}}
    \cup {[kind |-> e.kind, size |-> e.size, head |-> Str(<<"%", "P", "D", "F">>),
           readable |-> TRUE] : e \in FsEntries}

InitPDF ==
    /\ platform \in Platforms
    /\ envMaxFileSize \in EnvSettings
    /\ filePath \in PDFCandidates
    /\ fsEntry \in PDFFsEntries
    /\ IF ~Nameable(filePath, platform) THEN fsEntry.kind = "absent"
       ELSE ResolvesToDirectory(filePath, platform) => fsEntry.kind = "dir"
    /\ pc = "call"
    /\ violations = {}
    /\ outcome = Pending
    /\ fsCalls = <<>>
    /\ NoPageRange
    /\ NoError
    /\ NoRequest

NextPDF == validatePDFFile \/ readFile \/ readFileSettles

SpecPDF == InitPDF /\ [][NextPDF]_vars


(***************************************************************************)
(* parsePageRange (utils/validation.ts)                                    *)
(***************************************************************************)

Comma  == Ord(",")
Hyphen == Ord("-")

\* WhiteSpace and LineTerminator code units below 256
isWhiteSpace(c) == c \in (9..13) \cup {32, 160}

\* String.prototype.trim
trim(s) ==
    LET kept == {i \in 1..Len(s) : ~isWhiteSpace(s[i])}
    IN  IF kept = {} THEN <<>>
        ELSE SubSeq(s, CHOOSE i \in kept : \A j \in kept : i <= j, Max(kept))

\* String.prototype.split with a separator of one character
split(s, sep) ==
    LET cuts   == {i \in 1..Len(s) : s[i] = sep}
        n      == Cardinality(cuts)
        cut(k) == IF k = 0 THEN 0
                  ELSE IF k = n + 1 THEN Len(s) + 1
                  ELSE CHOOSE i \in cuts : Cardinality({j \in cuts : j < i}) = k - 1
    IN  [k \in 1..(n + 1) |-> SubSeq(s, cut(k - 1) + 1, cut(k) - 1)]

NaN == [nan |-> TRUE, value |-> 0]

\* Value of a sequence of digit values in the radix
RECURSIVE DigitsValue(_, _)
DigitsValue(ds, radix) ==
    IF ds = <<>> THEN 0
    ELSE DigitsValue(SubSeq(ds, 1, Len(ds) - 1), radix) * radix + ds[Len(ds)]

\* parseInt(string) without a radix: leading white space is skipped, a sign
\* is taken, "0x" or "0X" selects radix 16, and the longest prefix of
\* digits of the radix is the number; NaN when that prefix is empty.
parseInt(s) ==
    LET blanks   == {i \in 1..Len(s) : \A j \in 1..i : isWhiteSpace(s[j])}
        t        == SubSeq(s, Cardinality(blanks) + 1, Len(s))
        signed   == Len(t) > 0 /\ t[1] \in {Ord("+"), Hyphen}
        sign     == IF signed /\ t[1] = Hyphen THEN -1 ELSE 1
        u        == IF signed THEN SubSeq(t, 2, Len(t)) ELSE t
        hex      == Len(u) >= 2 /\ u[1] = Digit0 /\ u[2] \in {Ord("x"), Ord("X")}
        radix    == IF hex THEN 16 ELSE 10
        v        == IF hex THEN SubSeq(u, 3, Len(u)) ELSE u
        isDigit(c) == HexVal(c) >= 0 /\ HexVal(c) < radix
        prefix   == {i \in 1..Len(v) : \A j \in 1..i : isDigit(v[j])}
        digits   == [i \in 1..Cardinality(prefix) |-> HexVal(v[i])]
    IN  IF prefix = {} THEN NaN
        ELSE [nan |-> FALSE, value |-> sign * DigitsValue(digits, radix)]

\* pageRange is falsy or is "all" in any letter case
isAllExact(expr) == expr = Str(<<"a", "l", "l">>)

isAll(expr) == expr = <<>> \/ toLowerCase(expr) = Str(<<"a", "l", "l">>)

\* Array.from({ length: totalPages }, (_, i) => i + 1)
AllPages(total) == [i \in 1..total |-> i]

\* One turn of the loop: the pages the part pushes, or the error it throws.
PartPages(part, total) ==
    LET trimmed == trim(part)
    IN  IF Includes(trimmed, <<Hyphen>>)
        THEN LET numbers == split(trimmed, Hyphen)
                 start   == parseInt(trim(numbers[1]))
                 end     == parseInt(trim(numbers[2]))
             IN  IF \/ start.nan \/ end.nan
                    \/ start.value < 1 \/ end.value < start.value \/ end.value > total
                 THEN ValidationError("Invalid page range: {0}", trimmed, "INVALID_PAGE_RANGE")
                 ELSE [status |-> "pushed",
                       value  |-> [i \in 1..(end.value - start.value + 1) |->
                                      start.value + i - 1]]
        ELSE LET pageNum == parseInt(trimmed)
             IN  IF pageNum.nan \/ pageNum.value < 1 \/ pageNum.value > total
                 THEN ValidationError("Invalid page number: {0}", trimmed, "INVALID_PAGE_NUMBER")
                 ELSE [status |-> "pushed", value |-> <<pageNum.value>>]

\* Variant: the array is returned as the loop filled it.
KeepDuplicates(pages) == pages

\* Array.from(new Set(pages)): the first occurrence of every value, in the
\* order of insertion
Unique(pages) ==
    LET firsts == {i \in 1..Len(pages) : \A j \in 1..(i - 1) : pages[j] # pages[i]}
        nth(k) == CHOOSE i \in firsts : Cardinality({j \in firsts : j < i}) = k - 1
    IN  [k \in 1..Cardinality(firsts) |-> pages[nth(k)]]

\* Array.prototype.sort((a, b) => a - b)
SortAscending(pages) == SortSeq(pages, LAMBDA a, b : a < b)

\* The loop over the parts, left at the first throw, and the return
\* statement after it.
RECURSIVE PushParts(_, _, _)
PushParts(parts, total, pages) ==
    IF parts = <<>> THEN [status |-> "returned", value |-> SortAscending(Unique(pages))]
    ELSE LET pushed == PartPages(Head(parts), total)
         IN  IF pushed.status = "rejected" THEN pushed
             ELSE PushParts(Tail(parts), total, pages \o pushed.value)

\* The value returned, or the ValidationError thrown.
parsePageRange(expr, total) ==
    IF isAll(expr) THEN [status |-> "returned", value |-> AllPages(total)]
    ELSE PushParts(split(expr, Comma), total, <<>>)

\* A call of parsePageRange: the function is synchronous.
parsePageRangeCall ==
    /\ pc = "call"
    /\ pc' = "done"
    /\ outcome' = parsePageRange(pageRange, totalPages)
    /\ UNCHANGED <<platform, envMaxFileSize, fsEntry, filePath, violations, fsCalls,
                   pageVars, errorVars, requestVars, bufferVars, serverVars>>

MaxTerms == 2

\* Terms: page numbers, ranges, and text that is neither.
PageTerms ==
    { Str(<<"0">>), Str(<<"1">>), Str(<<"2">>), Str(<<"3">>), Str(<<"4">>),
      Str(<<" ", "2", " ">>), <<>>, Str(<<"a">>), Str(<<"3", "a", "b", "c">>),
      Str(<<"1", "-", "2">>), Str(<<"2", "-", "3">>), Str(<<"1", "-", "3">>),
      Str(<<"3", "-", "1">>), Str(<<"0", "-", "2">>), Str(<<"2", "-", "4">>),
      Str(<<" ", "1", " ", "-", " ", "2", " ">>),
      Str(<<"a", "-", "2">>), Str(<<"1", "-">>), Str(<<"-", "1">>),
      Str(<<"1", "-", "2", "-", "3">>), Str(<<"1", "-", "2", "x">>) }

\* At least one and at most n terms joined by commas
RECURSIVE TermLists(_)
TermLists(n) ==
    IF n = 1 THEN PageTerms
    ELSE LET shorter == TermLists(n - 1)
         IN  shorter \cup {s \o <<Comma>> \o t : s \in shorter, t \in PageTerms}

PageRanges ==
    TermLists(MaxTerms)
    \cup { Str(<<"a", "l", "l">>), Str(<<"A", "L", "L">>), Str(<<"A", "l", "l">>),
           Str(<<" ", "a", "l", "l">>), Str(<<"a", "l", "l", ",", "1">>) }

MaxPages == 3

\* pdfData.numpages of the documents
PageCounts == 0..MaxPages

InitPages ==
    /\ pageRange \in PageRanges
    /\ totalPages \in PageCounts
    /\ pc = "call"
    /\ outcome = Pending
    /\ platform = "posix"
    /\ envMaxFileSize = <<>>
    /\ fsEntry = [kind |-> "absent", size |-> 0]
    /\ filePath = <<>>
    /\ violations = {}
    /\ fsCalls = <<>>
    /\ NoError
    /\ NoRequest

NextPages == parsePageRangeCall

SpecPages == InitPages /\ [][NextPages]_vars


(***************************************************************************)
(* handleError (utils/error-handling.ts)                                   *)
(***************************************************************************)

\* Variant: the path given is not put into the error.
createMCPErrorWithoutPath(code, message, errorType, path, details) ==
    [code    |-> code,
     message |-> message,
     data    |-> [error_type |-> errorType, file_path |-> <<>>, details |-> details]]

\* An optional argument or property is <<>> when undefined and <<v>> when
\* it holds v.
createMCPError(code, message, errorType, path, details) ==
    [code    |-> code,
     message |-> message,
     data    |-> [error_type |-> errorType, file_path |-> path, details |-> details]]

\* Number.prototype.toString of a natural number
RECURSIVE NumberToString(_)
NumberToString(n) ==
    IF n < 10 THEN <<Digit0 + n>>
    ELSE NumberToString(n \div 10) \o <<Digit0 + (n % 10)>>

\* new Error(message), as a thrown value
NewError(message) ==
    [status |-> "rejected", name |-> "Error", message |-> message, stack |-> "stack"]

ProcessingTimeoutError(timeout) ==
    [status  |-> "rejected",
     name    |-> "ProcessingTimeoutError",
     message |-> Str(<<"P", "r", "o", "c", "e", "s", "s", "i", "n", "g", " ",
                       "t", "i", "m", "e", "o", "u", "t", " ", "a", "f", "t", "e", "r", " ">>)
                 \o NumberToString(timeout) \o Str(<<"m", "s">>),
     stack   |-> "stack"]

\* A thrown value that is no Error: a string, or undefined
NotAnError(value) == [status |-> "rejected", name |-> "string", message |-> value]

\* error instanceof Error
IsError(err) == err.name \in {"Error", "ValidationError", "ProcessingTimeoutError"}

\* The message of an MCPError is a string literal of error-handling.ts or
\* the message of the error: the template and the arguments of a
\* ValidationError, the text of any other Error.
Literal(text) == [literal |-> text]

MessageOf(err) ==
    IF err.name = "ValidationError" THEN [template |-> err.message, args |-> err.args]
    ELSE [text |-> err.message]

\* The branch for a ValidationError: the switch on error.code.
classifyValidationError(err, path) ==
    IF err.code \in {"INVALID_PATH", "SECURITY_VIOLATION"}
        THEN createMCPError(-32602, MessageOf(err), "VALIDATION_ERROR", path, <<>>)
    ELSE IF err.code = "FILE_NOT_FOUND"
        THEN createMCPError(-32603, MessageOf(err), "FILE_ERROR", path, <<>>)
    ELSE IF err.code = "FILE_TOO_LARGE"
        THEN createMCPError(-32604, MessageOf(err), "SIZE_ERROR", path, <<>>)
    ELSE IF err.code = "INVALID_PDF"
        THEN createMCPError(-32605, MessageOf(err), "FORMAT_ERROR", path, <<>>)
    ELSE createMCPError(-32603, MessageOf(err), "VALIDATION_ERROR", path, <<>>)

\* Variant: EACCES is looked for before ENOENT.
classifyErrorAccessFirst(err, path) ==
    IF Includes(err.message, Str(<<"E", "A", "C", "C", "E", "S">>))
        THEN createMCPError(-32603, Literal("Permission denied"), "PERMISSION_ERROR", path, <<>>)
    ELSE IF Includes(err.message, Str(<<"E", "N", "O", "E", "N", "T">>))
        THEN createMCPError(-32603, Literal("File not found"), "FILE_ERROR", path, <<>>)
    ELSE IF \/ Includes(err.message, Str(<<"E", "M", "F", "I", "L", "E">>))
            \/ Includes(err.message, Str(<<"E", "N", "F", "I", "L", "E">>))
        THEN createMCPError(-32604, Literal("Too many open files"), "RESOURCE_ERROR", path, <<>>)
    ELSE createMCPError(-32603, MessageOf(err), "PROCESSING_ERROR", path, <<err.stack>>)

\* The branch for any other Error: the tests of error.message.
classifyError(err, path) ==
    IF Includes(err.message, Str(<<"E", "N", "O", "E", "N", "T">>))
        THEN createMCPError(-32603, Literal("File not found"), "FILE_ERROR", path, <<>>)
    ELSE IF Includes(err.message, Str(<<"E", "A", "C", "C", "E", "S">>))
        THEN createMCPError(-32603, Literal("Permission denied"), "PERMISSION_ERROR", path, <<>>)
    ELSE IF \/ Includes(err.message, Str(<<"E", "M", "F", "I", "L", "E">>))
            \/ Includes(err.message, Str(<<"E", "N", "F", "I", "L", "E">>))
        THEN createMCPError(-32604, Literal("Too many open files"), "RESOURCE_ERROR", path, <<>>)
    ELSE createMCPError(-32603, MessageOf(err), "PROCESSING_ERROR", path, <<err.stack>>)

handleError(err, path) ==
    IF err.name = "ValidationError" THEN classifyValidationError(err, path)
    ELSE IF IsError(err) THEN classifyError(err, path)
    ELSE createMCPError(-32603, Literal("Unknown error occurred"), "UNKNOWN_ERROR", path, <<>>)

\* A call of handleError, with or without its second argument: the
\* function is synchronous.
handleErrorCall ==
    /\ pc = "call"
    /\ pc' = "done"
    /\ \E given \in BOOLEAN :
           mcpError' = handleError(error, IF given THEN <<filePath>> ELSE <<>>)
    /\ UNCHANGED <<platform, envMaxFileSize, fsEntry, filePath, violations, outcome,
                   fsCalls, pageVars, error, requestVars, bufferVars, serverVars>>

\* The errors validation.ts throws for the inputs of the model, and the
\* one of the test of handleError
ValidationErrors ==
    {e \in {PathArgumentError(<<>>), SecurityRejection({"hasDirectoryTraversal"})}
            \cup {StatOutcome(Stat(entry), defaultConfig) : entry \in FsEntries}
            \cup {ReadOutcome(ReadFile(entry)) : entry \in PDFFsEntries}
            \cup {PartPages(term, 1) : term \in PageTerms} :
        e.status = "rejected"}
    \cup {ValidationError("Invalid file", <<>>, "INVALID_FILE")}

MaxFragments == 2

\* What the messages of the errors are put together from
MessageFragments ==
    { Str(<<"E", "N", "O", "E", "N", "T">>), Str(<<"E", "A", "C", "C", "E", "S">>),
      Str(<<"E", "M", "F", "I", "L", "E">>), Str(<<"E", "N", "F", "I", "L", "E">>),
      Str(<<"e", "n", "o", "e", "n", "t">>), Str(<<":", " ", "o", "p", "e", "n", " ">>) }

RECURSIVE Messages(_)
Messages(n) ==
    IF n = 0 THEN {<<>>}
    ELSE LET shorter == Messages(n - 1)
         IN  shorter \cup {s \o f : s \in shorter, f \in MessageFragments}

\* What a catch clause around a tool call can hold
ThrownValues ==
    ValidationErrors
    \cup {NewError(message) : message \in Messages(MaxFragments)}
    \cup {ProcessingTimeoutError(timeout) : timeout \in {1, defaultConfig.processingTimeout}}
    \cup {NotAnError(value) : value \in {<<>>, Str(<<"E", "N", "O", "E", "N", "T">>)}}

InitErrors ==
    /\ error \in ThrownValues
    /\ mcpError = Pending
    /\ filePath = Str(<<"a", ".", "p", "d", "f">>)
    /\ pc = "call"
    /\ outcome = Pending
    /\ platform = "posix"
    /\ envMaxFileSize = <<>>
    /\ fsEntry = [kind |-> "absent", size |-> 0]
    /\ violations = {}
    /\ fsCalls = <<>>
    /\ NoPageRange
    /\ NoRequest

NextErrors == handleErrorCall

SpecErrors == InitErrors /\ [][NextErrors]_vars


(***************************************************************************)
(* withTimeout (utils/error-handling.ts)                                   *)
(*                                                                         *)
(* withTimeout(promise, timeoutMs) returns Promise.race of the promise and *)
(* of a promise that the callback of setTimeout rejects.  outcome is the   *)
(* settlement of the promise given, parser the state of the operation      *)
(* behind it, response the settlement of the promise returned.             *)
(***************************************************************************)

\* Variant: every settlement of a promise in the race is taken over.
RaceLast(current, settlement) == settlement

\* Promise.race: the promise returned is settled as the first of the
\* promises to settle; resolving or rejecting a settled promise does
\* nothing.
Race(current, settlement) == IF current = Pending THEN settlement ELSE current

\* How a promise of the parser can settle
PromiseSettlements ==
    {[status |-> "returned", value |-> n] : n \in PageCounts}
    \cup {NewError(message) : message \in Messages(MaxFragments)}

\* The call, up to the return of the pending promise, and the jobs queued
\* before any timer can run: they settle the race when the promise given
\* is settled already.
withTimeoutCall ==
    /\ pc = "call"
    /\ pc' = "race"
    /\ timer' = "armed"
    /\ response' = IF outcome = Pending THEN response ELSE Race(response, outcome)
    /\ UNCHANGED <<platform, envMaxFileSize, fsEntry, filePath, violations, outcome,
                   fsCalls, pageVars, errorVars, tool, servicePc, parser, pagesLeft,
                   bufferVars, serverVars>>

\* The operation ends and the promise given settles.
promiseSettles ==
    /\ pc = "race"
    /\ parser = "running"
    /\ \E settlement \in PromiseSettlements :
           /\ parser' = IF settlement.status = "returned" THEN "returned" ELSE "threw"
           /\ outcome' = settlement
           /\ response' = Race(response, settlement)
    /\ UNCHANGED <<platform, envMaxFileSize, fsEntry, filePath, pc, violations, fsCalls,
                   pageVars, errorVars, tool, servicePc, timer, pagesLeft,
                   bufferVars, serverVars>>

\* The callback of setTimeout: reject(new ProcessingTimeoutError(timeoutMs)).
timeoutCallback ==
    /\ pc = "race"
    /\ timer = "armed"
    /\ timer' = "fired"
    /\ response' = Race(response,
                        ProcessingTimeoutError(getConfig(envMaxFileSize).processingTimeout))
    /\ UNCHANGED <<platform, envMaxFileSize, fsEntry, filePath, pc, violations, outcome,
                   fsCalls, pageVars, errorVars, tool, servicePc, parser, pagesLeft,
                   bufferVars, serverVars>>

\* The promise given is pending, or settled before the call.
InitTimeout ==
    /\ \/ parser = "running" /\ outcome = Pending
       \/ /\ outcome \in PromiseSettlements
          /\ parser = IF outcome.status = "returned" THEN "returned" ELSE "threw"
    /\ pc = "call"
    /\ timer = "unset"
    /\ response = Pending
    /\ platform = "posix"
    /\ envMaxFileSize = <<>>
    /\ fsEntry = [kind |-> "absent", size |-> 0]
    /\ filePath = <<>>
    /\ violations = {}
    /\ fsCalls = <<>>
    /\ NoPageRange
    /\ NoError
    /\ tool = "none"
    /\ servicePc = "idle"
    /\ pagesLeft = <<>>
    /\ validatedBuffer = NoBuffer
    /\ buffer = NoBuffer
    /\ NoServer

NextTimeout == withTimeoutCall \/ promiseSettles \/ timeoutCallback

\* The callback of a timer that was set runs in the end.
SpecTimeout ==
    /\ InitTimeout
    /\ [][NextTimeout]_vars
    /\ WF_vars(withTimeoutCall)
    /\ WF_vars(timeoutCallback)


(***************************************************************************)
(* Tool requests (tools, services) and withTimeout                         *)
(*                                                                         *)
(* A request runs the handler of its tool, which checks the parameters     *)
(* against the schema and calls the service: handleExtractText calls       *)
(* PDFProcessor.extractText, handleExtractMetadata                         *)
(* MetadataParser.parseMetadata, handleExtractPages                        *)
(* TextExtractor.extractFromPages and handleValidatePDF                    *)
(* PDFProcessor.validatePDF.  totalPages is the number of pages of the     *)
(* document, which the parser reports as pdfData.numpages.                 *)
(***************************************************************************)

Tools == {"extract_pdf_text", "extract_pdf_metadata", "extract_pdf_pages", "validate_pdf"}

\* JSON.stringify: the text, told apart from the value it was made from
\* (properties that are undefined, <<>> here, are not written).
JSONStringify(value) == <<"json", value>>

\* The values of JavaScript that file_path takes: strings and numbers.
JSString(chars) == [type |-> "string", chars |-> chars]
JSNumber(value) == [type |-> "number", value |-> value]

\* String(value)
String(value) ==
    IF value.type = "string" THEN value.chars ELSE NumberToString(value.value)

\* The catch clause of the call-tool request handler, for the Error a tool
\* handler has thrown: when JSON.parse(errorMessage) succeeds the try block
\* throws `MCP Error <code>: <message>`, otherwise JSON.parse throws; the
\* catch clause of that try block takes either and throws the message
\* below.
CallToolCatch(errorMessage) ==
    <<"Tool execution failed: ", errorMessage>>

\* Schema.parse(args): the ZodError it throws, by the message of its
\* issue, or Pending when the parameters are accepted.
SchemaError(name, given, range) ==
    IF given.file_path.type # "string"
        THEN NewError(Str(<<"E", "x", "p", "e", "c", "t", "e", "d", " ", "s", "t", "r", "i",
                            "n", "g", ",", " ", "r", "e", "c", "e", "i", "v", "e", "d", " ",
                            "n", "u", "m", "b", "e", "r">>))
    ELSE IF given.file_path.chars = <<>>
        THEN NewError(Str(<<"F", "i", "l", "e", " ", "p", "a", "t", "h", " ", "i", "s", " ",
                            "r", "e", "q", "u", "i", "r", "e", "d">>))
    ELSE IF trim(given.file_path.chars) = <<>>
        THEN NewError(Str(<<"F", "i", "l", "e", " ", "p", "a", "t", "h", " ", "c", "a", "n",
                            "n", "o", "t", " ", "b", "e", " ", "e", "m", "p", "t", "y", " ",
                            "o", "r", " ", "w", "h", "i", "t", "e", "s", "p", "a", "c", "e",
                            " ", "o", "n", "l", "y">>))
    ELSE IF name = "extract_pdf_pages" /\ range = <<>>
        THEN NewError(Str(<<"P", "a", "g", "e", " ", "r", "a", "n", "g", "e", " ", "i", "s",
                            " ", "r", "e", "q", "u", "i", "r", "e", "d">>))
    ELSE Pending

\* A filesystem call of the service fails for want of file descriptors.
TooManyOpenFiles ==
    NewError(Str(<<"E", "M", "F", "I", "L", "E">>) \o Str(<<":", " ", "o", "p", "e", "n", " ">>))

\* The parser rejects the document.
ParseFailure == NewError(Str(<<"b", "a", "d", " ", "X", "R", "e", "f">>))

\* What a service returns, as far as the tools have it in common: the
\* number of pages the parser reported and the size of the file.
ServiceResult == [is_valid |-> TRUE, page_count |-> totalPages, file_size_bytes |-> fsEntry.size]

\* The request goes on to its next await.
Continue(at, calls) ==
    /\ servicePc' = at
    /\ fsCalls' = calls
    /\ UNCHANGED <<error, mcpError, response>>

\* The service returns, and the handler returns what it got.
Return(value) ==
    /\ servicePc' = "done"
    /\ response' = [status |-> "returned", value |-> value]
    /\ UNCHANGED <<fsCalls, error, mcpError>>

\* An error is thrown.  Inside validatePDF the catch clause takes it and
\* asks fs.stat for the size of the file; otherwise the catch clause of
\* the handler classifies it and throws new Error(JSON.stringify(mcpError)),
\* which the call-tool request handler catches and throws anew.
Throw(err, inService) ==
    IF inService /\ tool = "validate_pdf"
    THEN /\ servicePc' = "catch"
         /\ error' = err
         /\ fsCalls' = Append(fsCalls, "stat")
         /\ UNCHANGED <<mcpError, response>>
    ELSE \E classified \in {handleError(err, <<String(arguments.file_path)>>)} :
             /\ servicePc' = "done"
             /\ error' = err
             /\ mcpError' = classified
             /\ response' = [status   |-> "thrown",
                             message  |-> JSONStringify(classified),
                             rethrown |-> CallToolCatch(JSONStringify(classified))]
             /\ UNCHANGED fsCalls

\* What no step of a request changes once validatePDFFile is under way
requestFrame ==
    <<platform, envMaxFileSize, fsEntry, filePath, pc, violations, outcome, pageVars, tool,
      validatedBuffer, serverVars>>

\* The handler: Schema.parse(args), new service, and the call of the
\* service, which calls validatePDFFile.
handleToolCall ==
    /\ servicePc = "idle"
    /\ tool \in Tools
    /\ \E invalid \in {SchemaError(tool, arguments, pageRange)} :
           IF invalid # Pending THEN Throw(invalid, FALSE) /\ pc' = pc
           ELSE Continue("validatePDFFile", fsCalls) /\ pc' = "call"
    /\ UNCHANGED <<platform, envMaxFileSize, fsEntry, filePath, violations, outcome,
                   pageVars, tool, parser, timer, pagesLeft,
                   bufferVars, serverVars>>

\* Variant: the service does not await validatePDFFile and reads the file
\* whatever the validation said.
validatePDFFileNotAwaited ==
    /\ servicePc = "validatePDFFile"
    /\ pc = "done"
    /\ Continue("readFile", Append(fsCalls, "readFile"))
    /\ UNCHANGED <<requestFrame, buffer, parser, timer, pagesLeft>>

\* validatePDFFile has settled: its rejection is thrown on, or the service
\* calls fs.readFile(filePath).
validatePDFFileSettles ==
    /\ servicePc = "validatePDFFile"
    /\ pc = "done"
    /\ IF outcome.status = "rejected" THEN Throw(outcome, TRUE)
       ELSE Continue("readFile", Append(fsCalls, "readFile"))
    /\ UNCHANGED <<requestFrame, buffer, parser, timer, pagesLeft>>

\* fs.readFile of the service has settled: extractFromPages goes on to
\* withTimeout(pdf(buffer), processingTimeout), which calls the parser and
\* sets the timer; the other services call fs.stat(filePath) first.
serviceReadFileSettles ==
    /\ servicePc = "readFile"
    /\ \E failed \in BOOLEAN :
           IF failed \/ ~ReadFile(fsEntry).ok
               THEN Throw(TooManyOpenFiles, TRUE) /\ UNCHANGED <<parser, timer, buffer>>
           ELSE /\ buffer' = ReadFile(fsEntry)
                /\ IF tool = "extract_pdf_pages"
                       THEN /\ Continue("parse", fsCalls)
                            /\ parser' = "running"
                            /\ timer' = "armed"
                   ELSE Continue("stat", Append(fsCalls, "stat")) /\ UNCHANGED <<parser, timer>>
    /\ UNCHANGED <<requestFrame, pagesLeft>>

\* fs.stat of the service has settled: withTimeout(pdf(buffer),
\* processingTimeout) calls the parser and sets the timer.
serviceStatSettles ==
    /\ servicePc = "stat"
    /\ \E failed \in BOOLEAN :
           IF failed \/ ~Stat(fsEntry).ok
               THEN Throw(TooManyOpenFiles, TRUE) /\ UNCHANGED <<parser, timer>>
           ELSE Continue("parse", fsCalls) /\ parser' = "running" /\ timer' = "armed"
    /\ UNCHANGED <<requestFrame, buffer, pagesLeft>>

\* The loop of extractFromPages has pushed a page: it takes the next page
\* number and calls extractSinglePage, which calls pdf(buffer), or the
\* service returns.
AfterPage ==
    IF Len(pagesLeft) = 1
        THEN Return(ServiceResult) /\ parser' = "returned" /\ pagesLeft' = <<>>
    ELSE /\ Continue("extractSinglePage", fsCalls)
         /\ parser' = "running"
         /\ pagesLeft' = Tail(pagesLeft)

\* The promise of pdf(buffer) that withTimeout races settles first, and
\* the service goes on: what the parser throws is thrown on, the service
\* returns, or extractFromPages parses the page range and enters its loop.
raceSettles ==
    /\ parser = "running"
    /\ servicePc = "parse"
    /\ \E returns \in BOOLEAN, pageNumbers \in {parsePageRange(pageRange, totalPages)} :
           IF ~returns
               THEN Throw(ParseFailure, TRUE) /\ parser' = "threw" /\ UNCHANGED pagesLeft
           ELSE IF tool # "extract_pdf_pages" \/ pageNumbers.status = "rejected"
               THEN /\ IF tool # "extract_pdf_pages" THEN Return(ServiceResult)
                       ELSE Throw(pageNumbers, TRUE)
                    /\ parser' = "returned"
                    /\ UNCHANGED pagesLeft
           ELSE IF pageNumbers.value = <<>>
               THEN Return(ServiceResult) /\ parser' = "returned" /\ UNCHANGED pagesLeft
           ELSE /\ Continue("extractSinglePage", fsCalls)
                /\ parser' = "running"
                /\ pagesLeft' = pageNumbers.value
    /\ UNCHANGED <<requestFrame, buffer, timer>>

\* In the loop, the promise of pdf(buffer) that extractSinglePage awaits
\* settles: extractFromPages goes on to await pdf(pageBuffer), or catches
\* what was thrown (by the parser, or for a page number above numpages)
\* and pushes it as the content of the page.
extractSinglePageSettles ==
    /\ parser = "running"
    /\ servicePc = "extractSinglePage"
    /\ \E returns \in BOOLEAN :
           IF returns /\ Head(pagesLeft) <= totalPages
               THEN Continue("pageData", fsCalls) /\ parser' = "running" /\ UNCHANGED pagesLeft
           ELSE AfterPage
    /\ UNCHANGED <<requestFrame, buffer, timer>>

\* In the loop, the promise of pdf(pageBuffer) settles: the page is pushed
\* with its text or with the message of what was thrown.
pageDataSettles ==
    /\ parser = "running"
    /\ servicePc = "pageData"
    /\ AfterPage
    /\ UNCHANGED <<requestFrame, buffer, timer>>

\* The promise of a call that lost its race settles, without effect.
abandonedSettles ==
    /\ parser = "running"
    /\ servicePc \in {"catch", "done"}
    /\ parser' \in {"returned", "threw"}
    /\ UNCHANGED <<requestFrame, buffer, timer, servicePc, fsCalls, error, mcpError, response,
                   pagesLeft>>

\* The callback of setTimeout runs: the promise of the timer is rejected
\* with a ProcessingTimeoutError, which decides the race unless the
\* parser has decided it.  The timer is never cleared.
timerFires ==
    /\ timer = "armed"
    /\ timer' = "fired"
    /\ IF servicePc = "parse"
           THEN Throw(ProcessingTimeoutError(getConfig(envMaxFileSize).processingTimeout), TRUE)
       ELSE UNCHANGED <<servicePc, fsCalls, error, mcpError, response>>
    /\ UNCHANGED <<requestFrame, buffer, parser, pagesLeft>>

\* fs.stat(filePath).catch(() => ({ size: 0 })) in the catch clause of
\* validatePDF has settled, and validatePDF returns its verdict.
catchStatSettles ==
    /\ servicePc = "catch"
    /\ Return([is_valid        |-> FALSE,
               page_count      |-> 0,
               file_size_bytes |-> IF Stat(fsEntry).ok THEN Stat(fsEntry).size ELSE 0])
    /\ UNCHANGED <<requestFrame, buffer, parser, timer, pagesLeft>>

\* Names of one character: validatePDFFile asks nothing of the extension,
\* and a file can bear a name that validateFilePath turns down.
RequestPaths ==
    { Str(<<"a">>), <<>>, Str(<<" ">>), Str(<<"~">>) }

\* The arguments: file_path is one of the names, or a number.
RequestArgs ==
    {[file_path |-> JSString(name)] : name \in RequestPaths}
    \cup {[file_path |-> JSNumber(7)]}

RequestPageRanges ==
    { Str(<<"2">>), Str(<<"1", "-", "2">>), Str(<<"a", "l", "l">>), Str(<<"a">>), <<>> }

RequestFsEntries ==
    {entry \in PDFFsEntries : entry.kind \in {"file", "absent", "dir"}
                              /\ entry.size \in {0, 1024, 4096}}

InitRequest ==
    /\ tool \in Tools
    /\ arguments \in RequestArgs
    /\ filePath = IF arguments.file_path.type = "string" THEN arguments.file_path.chars ELSE <<>>
    /\ pageRange \in IF tool = "extract_pdf_pages" THEN RequestPageRanges ELSE {<<>>}
    /\ totalPages \in PageCounts
    /\ platform \in Platforms
    /\ envMaxFileSize = <<>>
    /\ fsEntry \in RequestFsEntries
    /\ IF ~Nameable(filePath, platform) THEN fsEntry.kind = "absent"
       ELSE ResolvesToDirectory(filePath, platform) => fsEntry.kind = "dir"
    /\ pc = "idle"
    /\ violations = {}
    /\ outcome = Pending
    /\ fsCalls = <<>>
    /\ NoError
    /\ servicePc = "idle"
    /\ parser = "idle"
    /\ timer = "unset"
    /\ pagesLeft = <<>>
    /\ response = Pending
    /\ validatedBuffer = NoBuffer
    /\ buffer = NoBuffer
    /\ inFlight = {}
    /\ validations = <<>>

NextRequest ==
    \/ handleToolCall
    \/ validatePDFFile
    \/ readFile
    \/ readFileSettles
    \/ validatePDFFileSettles
    \/ serviceReadFileSettles
    \/ serviceStatSettles
    \/ raceSettles
    \/ extractSinglePageSettles
    \/ pageDataSettles
    \/ abandonedSettles
    \/ timerFires
    \/ catchStatSettles

SpecRequest == InitRequest /\ [][NextRequest]_vars

\* Another process replaces or modifies what the path names while the
\* request is in progress: the request opens the path anew at each of its
\* filesystem calls (validateFilePath: fs.stat; validatePDFFile:
\* fs.readFile; the service: fs.readFile and fs.stat).
fileReplaced ==
    /\ servicePc \notin {"idle", "done"}
    /\ fsEntry' \in RequestFsEntries \ {fsEntry}
    /\ IF ~Nameable(filePath, platform) THEN fsEntry'.kind = "absent"
       ELSE ResolvesToDirectory(filePath, platform) => fsEntry'.kind = "dir"
    /\ UNCHANGED <<platform, envMaxFileSize, filePath, pc, violations, outcome, fsCalls,
                   pageVars, errorVars, requestVars, bufferVars, serverVars>>

NextReplace == NextRequest \/ fileReplaced

SpecReplace == InitRequest /\ [][NextReplace]_vars

\* Filesystem calls return, timers fire and continuations run; nothing
\* makes the parser return.
FairRequest ==
    /\ SpecRequest
    /\ WF_vars(handleToolCall)
    /\ WF_vars(validatePDFFile)
    /\ WF_vars(readFile)
    /\ WF_vars(readFileSettles)
    /\ WF_vars(validatePDFFileSettles)
    /\ WF_vars(serviceReadFileSettles)
    /\ WF_vars(serviceStatSettles)
    /\ WF_vars(timerFires)
    /\ WF_vars(catchStatSettles)


(***************************************************************************)
(* Interleaved calls of validateFilePath                                   *)
(*                                                                         *)
(* Calls made one after the other without awaiting, as by                  *)
(* Array(100).fill(0).map(() => validateFilePath(validPath)): each runs    *)
(* to its await of fs.stat, and the continuations run as the stats settle, *)
(* in any order.  Each call has its locals; the function writes to nothing *)
(* outside them.                                                           *)
(***************************************************************************)

MaxCalls == 3

\* The synchronous part of call i, as in validateFilePath above.
interleavedCall(i) ==
    /\ validations[i].pc = "call"
    /\ LET argError == PathArgumentError(filePath)
           flags    == IF argError = Pending THEN Violations(filePath, platform) ELSE {}
           secError == SecurityRejection(flags)
       IN  IF argError # Pending
               THEN /\ validations' = [validations EXCEPT ![i] =
                            [pc |-> "done", violations |-> flags, outcome |-> argError]]
                    /\ fsCalls' = fsCalls
           ELSE IF secError # Pending
               THEN /\ validations' = [validations EXCEPT ![i] =
                            [pc |-> "done", violations |-> flags, outcome |-> secError]]
                    /\ fsCalls' = fsCalls
           ELSE /\ validations' = [validations EXCEPT ![i] =
                        [pc |-> "stat", violations |-> flags, outcome |-> Pending]]
                /\ fsCalls' = Append(fsCalls, "stat")
    /\ UNCHANGED <<platform, envMaxFileSize, fsEntry, filePath, pc, violations, outcome,
                   pageVars, errorVars, requestVars, bufferVars, arguments, inFlight>>

\* Variant: the calls share what fs.stat gave, and a call whose stat
\* settles while another call still awaits its own finds nothing.
interleavedStatSettlesShared(i) ==
    /\ validations[i].pc = "stat"
    /\ validations' = [validations EXCEPT ![i] =
           [pc         |-> "done",
            violations |-> validations[i].violations,
            outcome    |-> IF \E j \in DOMAIN validations : j # i /\ validations[j].pc = "stat"
                               THEN StatOutcome(Stat([kind |-> "absent", size |-> 0]),
                                                getConfig(envMaxFileSize))
                           ELSE StatOutcome(Stat(fsEntry), getConfig(envMaxFileSize))]]
    /\ UNCHANGED <<pathVars, pageVars, errorVars, requestVars, bufferVars, arguments, inFlight>>

\* fs.stat of call i settles and the call runs to its end.
interleavedStatSettles(i) ==
    /\ validations[i].pc = "stat"
    /\ validations' = [validations EXCEPT ![i] =
           [pc         |-> "done",
            violations |-> validations[i].violations,
            outcome    |-> StatOutcome(Stat(fsEntry), getConfig(envMaxFileSize))]]
    /\ UNCHANGED <<pathVars, pageVars, errorVars, requestVars, bufferVars, arguments, inFlight>>

\* One path, one state of the filesystem, and the calls not yet made.
InitInterleaved ==
    /\ validations = [i \in 1..MaxCalls |-> [pc |-> "call", violations |-> {}, outcome |-> Pending]]
    /\ platform \in Platforms
    /\ envMaxFileSize \in EnvSettings
    /\ filePath \in RequestPaths
    /\ fsEntry \in FsEntries
    /\ IF ~Nameable(filePath, platform) THEN fsEntry.kind = "absent"
       ELSE ResolvesToDirectory(filePath, platform) => fsEntry.kind = "dir"
    /\ pc = "idle"
    /\ violations = {}
    /\ outcome = Pending
    /\ fsCalls = <<>>
    /\ NoPageRange
    /\ NoError
    /\ tool = "none"
    /\ servicePc = "idle"
    /\ parser = "idle"
    /\ timer = "unset"
    /\ pagesLeft = <<>>
    /\ response = Pending
    /\ validatedBuffer = NoBuffer
    /\ buffer = NoBuffer
    /\ arguments = <<>>
    /\ inFlight = {}

NextInterleaved ==
    \E i \in 1..MaxCalls : interleavedCall(i) \/ interleavedStatSettles(i)

SpecInterleaved == InitInterleaved /\ [][NextInterleaved]_vars

(***************************************************************************)
(* The server (index.ts): tool calls in progress                           *)
(*                                                                         *)
(* The callback given to setRequestHandler(CallToolRequestSchema, ...) is  *)
(* an async function: it is called for a request when the request arrives, *)
(* calls the handler of the tool at once and is suspended in it until the  *)
(* handler settles.  Requests are told apart by their ids.                 *)
(***************************************************************************)

MaxRequests == 11

\* A tools/call request arrives: the callback starts the handler of the
\* tool.  Nothing on the way reads getConfig().concurrentProcessingLimit.
callToolRequest ==
    /\ \E id \in (1..MaxRequests) \ inFlight : inFlight' = inFlight \cup {id}
    /\ UNCHANGED <<pathVars, pageVars, errorVars, requestVars, bufferVars, arguments,
                   validations>>

\* The handler of a tool settles and the callback returns or throws.
callToolSettles ==
    /\ \E id \in inFlight : inFlight' = inFlight \ {id}
    /\ UNCHANGED <<pathVars, pageVars, errorVars, requestVars, bufferVars, arguments,
                   validations>>

InitServer ==
    /\ inFlight = {}
    /\ arguments = <<>>
    /\ validations = <<>>
    /\ platform = "posix"
    /\ envMaxFileSize = <<>>
    /\ fsEntry = [kind |-> "absent", size |-> 0]
    /\ filePath = <<>>
    /\ pc = "idle"
    /\ violations = {}
    /\ outcome = Pending
    /\ fsCalls = <<>>
    /\ NoPageRange
    /\ NoError
    /\ tool = "none"
    /\ servicePc = "idle"
    /\ parser = "idle"
    /\ timer = "unset"
    /\ pagesLeft = <<>>
    /\ response = Pending
    /\ validatedBuffer = NoBuffer
    /\ buffer = NoBuffer

NextServer == callToolRequest \/ callToolSettles

SpecServer == InitServer /\ [][NextServer]_vars

(***************************************************************************)
(* Properties of validateFilePath                                          *)
(***************************************************************************)

Done     == pc = "done"
Rejected == Done /\ outcome.status = "rejected"
RejectedAs(code) ==
    Rejected /\ outcome.name = "ValidationError" /\ outcome.code = code
NoFilesystemCall == fsCalls = <<>> /\ pc # "stat"
ExistingSmallFile ==
    fsEntry.kind = "file" /\ fsEntry.size <= getConfig(envMaxFileSize).maxFileSize

\* s contains the substring ".." or the character "~"
ContainsTraversal(s) ==
    \/ \E i \in 1..(Len(s) - 1) : s[i] = Dot /\ s[i + 1] = Dot
    \/ \E i \in 1..Len(s) : s[i] = Tilde

\* C1: a candidate whose raw string contains ".." or "~" is rejected with a
\* ValidationError of code SECURITY_VIOLATION, whatever the filesystem holds
\* at the resolved path, and fs.stat is never reached.
C1_RawTraversalRejected ==
    ContainsTraversal(filePath) =>
        /\ NoFilesystemCall
        /\ Done => RejectedAs("SECURITY_VIOLATION")

\* A relative candidate with ".." that names an existing small regular file
\* has been rejected.
C1_Witness ==
    /\ RejectedAs("SECURITY_VIOLATION")
    /\ \E i \in 1..(Len(filePath) - 1) : filePath[i] = Dot /\ filePath[i + 1] = Dot
    /\ filePath[1] = LowerA
    /\ ExistingSmallFile

\* C2: every rejection caused by one of the six security checks carries the
\* code SECURITY_VIOLATION and one and the same message, whichever checks
\* fired; the error of such a rejection does not depend on the check.
C2_UniformSecurityError ==
    /\ (Done /\ violations # {}) =>
           outcome = ValidationError("Invalid file path", <<>>, "SECURITY_VIOLATION")
    /\ RejectedAs("SECURITY_VIOLATION") =>
           /\ violations # {}
           /\ outcome.message = "Invalid file path"
           /\ outcome.args = <<>>

\* A candidate rejected by the raw traversal check (which never fires alone:
\* the decoded form of such a candidate holds the same characters).
C2_Witness ==
    /\ RejectedAs("SECURITY_VIOLATION")
    /\ violations = {"hasDirectoryTraversal", "hasEncodedTraversal"}

\* C3: a candidate that resolves to a symbolic link is rejected, also when
\* the target of the link is a regular file below the size ceiling.
C3_SymlinkRejected ==
    (Done /\ fsEntry.kind \in {"linkToFile", "linkToDir"}) => Rejected

\* p shows ".." or "~" only after two rounds of percent-decoding
DoubleEncodedTraversal(p) ==
    LET once == decodeURIComponent(p)
    IN  /\ once.ok
        /\ ~ContainsTraversal(p)
        /\ ~ContainsTraversal(once.value)
        /\ LET twice == decodeURIComponent(once.value)
           IN  twice.ok /\ ContainsTraversal(twice.value)

\* C4: a candidate that yields ".." or "~" only after two rounds of
\* percent-decoding is rejected with SECURITY_VIOLATION, whether or not a
\* file of that literal name exists.
C4_DoubleEncodedRejected ==
    (Done /\ DoubleEncodedTraversal(filePath)) => RejectedAs("SECURITY_VIOLATION")

\* p does not decode as a URI component, or its decoded form has ".." or "~"
EncodedTraversal(p) ==
    LET once == decodeURIComponent(p)
    IN  ~once.ok \/ ContainsTraversal(once.value)

\* C5: a candidate whose decoding as a URI component fails, or whose
\* once-decoded form contains ".." or "~", is rejected with
\* SECURITY_VIOLATION before any filesystem call is made.
C5_EncodedTraversalRejected ==
    EncodedTraversal(filePath) =>
        /\ NoFilesystemCall
        /\ Done => RejectedAs("SECURITY_VIOLATION")

\* A candidate that does not decode, flagged by nothing else and naming an
\* existing small regular file, has been rejected.
C5_Witness ==
    /\ RejectedAs("SECURITY_VIOLATION")
    /\ ~decodeURIComponent(filePath).ok
    /\ violations = {"hasEncodedTraversal"}
    /\ ExistingSmallFile

\* C6: a candidate whose file name stem (extension stripped) is, in any
\* letter case, one of the reserved device names is rejected with
\* SECURITY_VIOLATION.
C6_DeviceNameRejected ==
    (Done /\ toUpperCase(basename(filePath, extname(filePath, platform), platform))
                 \in DeviceNames)
        => RejectedAs("SECURITY_VIOLATION")

\* Number of non-empty segments between slashes
SegmentCount(p) ==
    Cardinality({i \in 1..Len(p) : p[i] # Slash /\ (i = 1 \/ p[i - 1] = Slash)})

\* C7: a candidate longer than 255 characters or with more than 20 path
\* segments is rejected as a security violation without consulting the
\* filesystem.
C7_LengthAndDepthRejected ==
    (Len(filePath) > 255 \/ SegmentCount(filePath) > 20) =>
        /\ NoFilesystemCall
        /\ Done => RejectedAs("SECURITY_VIOLATION")

\* C8: a candidate whose raw string contains "./" is rejected, also when it
\* names an existing small regular file.
C8_DotSlashRejected ==
    (Done /\ \E i \in 1..(Len(filePath) - 1) : filePath[i] = Dot /\ filePath[i + 1] = Slash)
        => Rejected

\* Absolute in the POSIX or in the Windows drive form, on either platform
AbsoluteForm(p) ==
    /\ Len(p) > 0
    /\ \/ p[1] = Slash
       \/ /\ Len(p) > 2
          /\ isWindowsDeviceRoot(p[1])
          /\ p[2] = Colon
          /\ p[3] \in {Slash, Backslash}

\* C9: on every platform an absolute candidate whose lower-cased form
\* contains a sensitive fragment is rejected with SECURITY_VIOLATION before
\* any filesystem call.
C9_SensitivePathRejected ==
    (/\ AbsoluteForm(filePath)
     /\ \E frag \in sensitiveFragments : Includes(toLowerCase(filePath), frag)) =>
        /\ NoFilesystemCall
        /\ Done => RejectedAs("SECURITY_VIOLATION")

\* Tab, line feed, vertical tab, form feed, carriage return and space
Blank(p) == \A i \in 1..Len(p) : p[i] \in (9..13) \cup {32}

\* C10: an empty or whitespace-only candidate is rejected with INVALID_PATH
\* at the first check, before any filesystem call.
C10_BlankRejected ==
    Blank(filePath) =>
        /\ NoFilesystemCall
        /\ Done => RejectedAs("INVALID_PATH")

(***************************************************************************)
(* Properties of validatePDFFile                                           *)
(***************************************************************************)

\* validatePDFFile got past its await of validateFilePath
PassedValidateFilePath == Len(fsCalls) = 2 /\ fsCalls[2] = "readFile"

\* The file holds fewer than four bytes, or other bytes than those of
\* "%PDF" (37, 80, 68, 70) at its start
NotPDFContent(entry) ==
    \/ entry.size < 4
    \/ \E i \in 1..4 : entry.head[i] # <<37, 80, 68, 70>>[i]

\* C11: validatePDFFile fails with INVALID_PDF for every path that passes
\* validateFilePath and whose file holds fewer than four bytes or does not
\* begin with the four bytes of "%PDF".
C11_NotPDFContentRejected ==
    (Done /\ PassedValidateFilePath /\ NotPDFContent(fsEntry)) => RejectedAs("INVALID_PDF")

\* The last component of p is a stem followed by the one extension ".pdf"
SinglePDFExtension(p) ==
    LET slashes == {i \in 1..Len(p) : p[i] \in {Slash, Backslash}}
        from    == IF slashes = {} THEN 1 ELSE Max(slashes) + 1
        name    == SubSeq(p, from, Len(p))
    IN  /\ Len(name) > 4
        /\ SubSeq(name, Len(name) - 3, Len(name)) = <<Dot, 112, 100, 102>>
        /\ \A i \in 1..(Len(name) - 4) : name[i] # Dot

\* C12: validatePDFFile rejects with a ValidationError every candidate whose
\* file name does not end in exactly one extension ".pdf" (no extension,
\* another extension, or two extensions), whatever the file holds.
C12_OtherExtensionRejected ==
    (Done /\ ~SinglePDFExtension(filePath)) =>
        (Rejected /\ outcome.name = "ValidationError")

\* C27: for a candidate that passes every security check, validateFilePath
\* fails with FILE_NOT_FOUND when fs.stat fails, whatever the reason, with
\* NOT_A_FILE when the target is no regular file, whatever its size, with
\* FILE_TOO_LARGE exactly when the size is strictly greater than the
\* configured maximum, and succeeds otherwise: a file of exactly the
\* maximum size is accepted.
C27_StatOutcomes ==
    (Done /\ fsCalls = <<"stat">>) =>
        LET maximum == IF envMaxFileSize = <<>> THEN 100 * 1024 * 1024
                       ELSE envMaxFileSize[1]
        IN  IF fsEntry.kind \in {"absent", "denied"} THEN RejectedAs("FILE_NOT_FOUND")
            ELSE IF fsEntry.kind \in {"dir", "linkToDir"} THEN RejectedAs("NOT_A_FILE")
            ELSE IF fsEntry.size > maximum THEN RejectedAs("FILE_TOO_LARGE")
            ELSE outcome = Resolved

\* A file of exactly the maximum size is accepted.
C27_Witness ==
    /\ Done
    /\ fsCalls = <<"stat">>
    /\ envMaxFileSize = <<1024>>
    /\ fsEntry.kind = "file"
    /\ fsEntry.size = 1024
    /\ outcome = Resolved

(***************************************************************************)
(* Properties of parsePageRange                                            *)
(***************************************************************************)

Returned == Done /\ outcome.status = "returned"

\* C13: every list parsePageRange returns is strictly ascending (so without
\* duplicates), has every element in 1..totalPages, and is empty only when
\* totalPages is 0.
C13_AscendingPagesInRange ==
    Returned =>
        LET list == outcome.value
        IN  /\ \A i \in 1..(Len(list) - 1) : list[i] < list[i + 1]
            /\ \A i \in 1..Len(list) : list[i] \in 1..totalPages
            /\ totalPages # 0 => list # <<>>

\* Ranges given out of order that overlap: pages pushed as 2, 3, 1, 2.
C13_Witness ==
    /\ Returned
    /\ pageRange = <<50, 45, 51, 44, 49, 45, 50>>
    /\ outcome.value = <<1, 2, 3>>

\* The terms of an expression: its parts between commas, blanks at both
\* ends left out
Terms(expr) == [k \in DOMAIN split(expr, Comma) |-> trim(split(expr, Comma)[k])]

\* t is written as an integer: one or more decimal digits
IsInteger(t) == t # <<>> /\ \A i \in 1..Len(t) : t[i] \in 48..57

\* The integer that the digits of t write
IntegerOf(t) == DigitsValue([i \in 1..Len(t) |-> t[i] - 48], 10)

HasHyphen(t) == \E i \in 1..Len(t) : t[i] = 45

\* Start and end of a term with a hyphen: the text before and the text
\* after its first hyphen
RangeStart(t) == trim(SubSeq(t, 1, (CHOOSE i \in 1..Len(t) : t[i] = 45 /\ \A j \in 1..(i - 1) : t[j] # 45) - 1))
RangeEnd(t) == trim(SubSeq(t, (CHOOSE i \in 1..Len(t) : t[i] = 45 /\ \A j \in 1..(i - 1) : t[j] # 45) + 1, Len(t)))

\* The pages a term covers: N for the single integer N, A to B for the
\* range A-B
Covered(t) ==
    IF HasHyphen(t)
    THEN IF IsInteger(RangeStart(t)) /\ IsInteger(RangeEnd(t))
         THEN IntegerOf(RangeStart(t))..IntegerOf(RangeEnd(t))
         ELSE {}
    ELSE IF IsInteger(t) THEN {IntegerOf(t)} ELSE {}

\* The expression neither is empty nor reads "all"
ListsTerms(expr) ==
    ~(\/ expr = <<>>
      \/ /\ Len(expr) = 3
         /\ expr[1] \in {65, 97}
         /\ expr[2] \in {76, 108}
         /\ expr[3] \in {76, 108})

\* C14: when parsePageRange succeeds on a list of terms, the pages of the
\* returned list are exactly the pages covered by at least one term (N by
\* the single integer N, A to B by the range A-B); the order of the terms
\* and their repetition therefore make no difference.
C14_ExactlyCoveredPages ==
    (Returned /\ ListsTerms(pageRange)) =>
        {outcome.value[i] : i \in 1..Len(outcome.value)}
            = UNION {Covered(Terms(pageRange)[k]) : k \in DOMAIN Terms(pageRange)}

\* C15: parsePageRange returns the list 1, 2, ..., totalPages when the
\* expression is empty or reads "all" in any letter case, for every
\* totalPages >= 0; for totalPages = 0 that is the empty list, not a
\* failure.
C15_AllPages ==
    (Done /\ ~ListsTerms(pageRange)) =>
        /\ outcome.status = "returned"
        /\ Len(outcome.value) = totalPages
        /\ \A i \in 1..totalPages : outcome.value[i] = i

\* "ALL" for a document without pages
C15_Witness ==
    /\ Returned
    /\ pageRange = <<65, 76, 76>>
    /\ totalPages = 0
    /\ outcome.value = <<>>

\* The term is valid for a document of so many pages: an integer in
\* 1..total, or a range whose start and end are integers with
\* 1 <= start <= end <= total
ValidTerm(t, total) ==
    IF HasHyphen(t)
    THEN /\ IsInteger(RangeStart(t))
         /\ IsInteger(RangeEnd(t))
         /\ 1 <= IntegerOf(RangeStart(t))
         /\ IntegerOf(RangeStart(t)) <= IntegerOf(RangeEnd(t))
         /\ IntegerOf(RangeEnd(t)) <= total
    ELSE IsInteger(t) /\ IntegerOf(t) \in 1..total

\* C16: when a term is invalid, no list is returned: parsePageRange fails
\* with INVALID_PAGE_RANGE when the leftmost invalid term has a hyphen,
\* and with INVALID_PAGE_NUMBER when it has none.
C16_LeftmostInvalidTermDecides ==
    LET terms   == Terms(pageRange)
        invalid == {k \in DOMAIN terms : ~ValidTerm(terms[k], totalPages)}
    IN  (Done /\ ListsTerms(pageRange) /\ invalid # {}) =>
            LET first == CHOOSE k \in invalid : \A j \in invalid : k <= j
            IN  IF HasHyphen(terms[first])
                THEN RejectedAs("INVALID_PAGE_RANGE")
                ELSE RejectedAs("INVALID_PAGE_NUMBER")

\* The term is written as the grammar has it: a single integer, or two
\* integers joined by the only hyphen of the term (blanks around the
\* integers set aside)
WellFormedTerm(t) ==
    \/ IsInteger(t)
    \/ /\ Cardinality({i \in 1..Len(t) : t[i] = 45}) = 1
       /\ IsInteger(RangeStart(t))
       /\ IsInteger(RangeEnd(t))

\* C28: parsePageRange fails on every expression with a term that is
\* neither a single integer nor exactly two integers joined by one hyphen,
\* such as 1-2-3 or 3abc.
C28_MalformedTermRejected ==
    (Done /\ ListsTerms(pageRange)
          /\ \E k \in DOMAIN Terms(pageRange) : ~WellFormedTerm(Terms(pageRange)[k])) =>
        Rejected

(***************************************************************************)
(* Properties of handleError                                               *)
(***************************************************************************)

ClassifiedAs(code, errorType) ==
    mcpError.code = code /\ mcpError.data.error_type = errorType

\* C17: handleError maps a ValidationError of code INVALID_PAGE_RANGE or
\* INVALID_PAGE_NUMBER to the code -32602 with error type
\* VALIDATION_ERROR.
C17_PageErrorsAreInvalidParams ==
    (/\ Done
     /\ error.name = "ValidationError"
     /\ error.code \in {"INVALID_PAGE_RANGE", "INVALID_PAGE_NUMBER"})
        => ClassifiedAs(-32602, "VALIDATION_ERROR")

\* The message holds the text
Mentions(message, text) ==
    \E i \in 1..(Len(message) - 5) : SubSeq(message, i, i + 5) = Str(text)

C19_TimeoutHasOwnCategory ==
    (Done /\ error.name = "ProcessingTimeoutError")
        => mcpError.data.error_type # "PROCESSING_ERROR"

(***************************************************************************)
(* Properties of the tool requests                                         *)
(***************************************************************************)

\* The handler has returned or thrown
Completed == servicePc = "done" /\ response.status \in {"returned", "thrown"}

\* C20: every call of the parser is raced against the processing timeout,
\* so every request to any of the four tools eventually completes, with a
\* result or with an error, also when the parser never returns
\* (filesystem calls return and timers fire).
C20_EveryRequestCompletes == <>Completed

\* C22: in every service operation the parser is called only after
\* validatePDFFile has resolved for the path of the request; a request
\* whose validation is rejected never calls the parser.
C22_ParserOnlyAfterValidation ==
    /\ parser # "idle" => (pc = "done" /\ outcome = Resolved)
    /\ (pc = "done" /\ outcome.status = "rejected") => parser = "idle"

\* The parser runs on a file that validatePDFFile has accepted.
C22_Witness ==
    /\ tool \in Tools
    /\ parser = "running"
    /\ servicePc = "parse"
    /\ pc = "done"
    /\ outcome = Resolved

\* The handler of the tool has thrown, and with it the call-tool request
\* handler.
Thrown == Completed /\ response.status = "thrown"

\* The JSON text names the path p as the file_path of its data.
NamesPath(text, p) == text[1] = "json" /\ text[2].data.file_path = <<p>>

\* C23: for a tool call whose file_path validateFilePath rejects as empty
\* or as a security violation, the message the call-tool request handler
\* throws in the end does not carry the raw file_path.
C23_RejectedPathNotInMessage ==
    (Thrown /\ (RejectedAs("INVALID_PATH") \/ RejectedAs("SECURITY_VIOLATION"))) =>
        ~NamesPath(response.rethrown[2], filePath)

ErrorTypes ==
    { "VALIDATION_ERROR", "FILE_ERROR", "SIZE_ERROR", "FORMAT_ERROR", "PERMISSION_ERROR",
      "RESOURCE_ERROR", "PROCESSING_ERROR", "UNKNOWN_ERROR" }

\* The Error thrown has as its message the JSON text of an object with a
\* numeric code, a message that is a string and a data.error_type.
StructuredError ==
    /\ response.message[1] = "json"
    /\ response.message[2].code \in Int
    /\ DOMAIN response.message[2].message \in {{"literal"}, {"text"}, {"template", "args"}}
    /\ response.message[2].data.error_type \in ErrorTypes

C30_ParserGetsValidatedContent ==
    parser # "idle" =>
        /\ buffer = validatedBuffer
        /\ ReadOutcome(buffer) = Resolved
        /\ buffer.length <= getConfig(envMaxFileSize).maxFileSize

\* C29: for a candidate that validateFilePath rejects with
\* SECURITY_VIOLATION, validate_pdf makes no filesystem call, and its
\* result is the one it gives when nothing exists at the path:
\* file_size_bytes is 0 whatever the path names.
C29_NoProbeOfRejectedPath ==
    (tool = "validate_pdf" /\ Completed /\ pc = "done" /\ RejectedAs("SECURITY_VIOLATION")) =>
        /\ fsCalls = <<>>
        /\ response.status = "returned"
        /\ response.value.file_size_bytes = 0

(***************************************************************************)
(* Properties of interleaved calls                                         *)
(***************************************************************************)

\* What validateFilePath gives for the path and the filesystem of the state
\* when it runs with no other call around it.
AloneOutcome ==
    IF PathArgumentError(filePath) # Pending THEN PathArgumentError(filePath)
    ELSE IF SecurityRejection(Violations(filePath, platform)) # Pending
        THEN SecurityRejection(Violations(filePath, platform))
    ELSE StatOutcome(Stat(fsEntry), getConfig(envMaxFileSize))

\* C25: when calls of validateFilePath for the same path run interleaved at
\* their awaits of fs.stat, each call ends as it would alone on the same
\* filesystem, and for a safe path that names a file within the maximum
\* every call resolves.
C25_InterleavedCallsAgree ==
    \A i \in DOMAIN validations :
        validations[i].pc = "done" =>
            /\ validations[i].outcome = AloneOutcome
            /\ (validations[i].violations = {} /\ filePath # <<>> /\ ExistingSmallFile) =>
                   validations[i].outcome = Resolved

\* A call has resolved for a safe existing path while a second awaits its
\* fs.stat and a third has not begun.
C25_Witness ==
    /\ DOMAIN validations = 1..MaxCalls
    /\ ExistingSmallFile
    /\ \E i, j, k \in DOMAIN validations :
           /\ validations[i].pc = "done" /\ validations[i].outcome = Resolved
           /\ validations[j].pc = "stat"
           /\ validations[k].pc = "call"

(***************************************************************************)
(* Properties of the server                                                *)
(***************************************************************************)

\* C21: the number of tool calls in progress never exceeds
\* getConfig().concurrentProcessingLimit (10); a call that arrives when so
\* many are in progress starts only after one of them has settled.
C21_ConcurrencyCeiling ==
    Cardinality(inFlight) <= getConfig(envMaxFileSize).concurrentProcessingLimit

(***************************************************************************)
(* Properties of withTimeout                                               *)
(***************************************************************************)

TimedOut == response.status = "rejected" /\ response.name = "ProcessingTimeoutError"

\* C26: the promise withTimeout returns settles exactly once: as the
\* promise given when that one settles before the timer fires, with a
\* ProcessingTimeoutError when the timer fires first; the later settlement
\* of the loser changes nothing, and the timer firing leaves the operation
\* behind the promise running.
C26_SettlesOnce ==
    /\ [][/\ response # Pending => response' = response
          /\ (response = Pending /\ response' # Pending) =>
                 IF timer' = "fired"
                 THEN timer = "armed" /\ outcome' = Pending /\ TimedOut'
                 ELSE outcome' # Pending /\ response' = outcome'
          /\ timer' # timer => parser' = parser /\ outcome' = outcome]_vars
    /\ <>(response # Pending)

\* The timer fired first and the operation ended afterwards, with a value
\* that nobody receives.
C26_Witness ==
    /\ pc = "race"
    /\ TimedOut
    /\ parser = "returned"
    /\ outcome.status = "returned"

====
